---- MODULE Spec2Model ----
(***************************************************************************)
(* The scrape-and-cache collector of open-meteo-exporter                   *)
(* (src/internal/exporter.go, src/internal/handler.go, src/types/types.go).*)
(*                                                                         *)
(* Time is counted in ticks of 1/TicksPerSecond second, so that instants   *)
(* that are not whole seconds exist and time.Time.Unix() has something to  *)
(* truncate.  Floating point values are counted in tenths (-0.1 is -1).    *)
(***************************************************************************)
EXTENDS Integers, Sequences, FiniteSets, TLC

(***************************************************************************)
(* Bounds of the model.                                                    *)
(***************************************************************************)
\* Number of Collect invocations explored.
MaxCollects == 3
\* Number of times the clock is advanced.
MaxTicks == 2
\* Number of network requests explored.
MaxFetches == 3
\* Resolution of the clock: ticks per second.
TicksPerSecond == 2
\* Number of Collect invocations explored when Collect calls overlap.
MaxConcCollects == 2
\* Number of times the clock is advanced when Collect calls overlap.
MaxConcTicks == 1
\* Number of Collect invocations explored when progress is checked.
MaxLiveCollects == 2
\* Number of times the clock is advanced when progress is checked.
MaxLiveTicks == 1

(***************************************************************************)
(* Program constants.                                                      *)
(***************************************************************************)
\* handler.go:34 / handler.go:98  loc.TtlMinutes = 10
DefaultTtlMinutes == 10
\* handler.go:40 / handler.go:104  int64(loc.TtlMinutes*60)
SecondsPerMinute == 60

FetchMethodDefault == "default"
FetchMethodAlt == "alt"
\* Location.FetchMethod is a *FetchMethod: the nil pointer.
NoMethod == "nil"

\* The thirteen GaugeVecs of the exporter, by metric name.
GaugeNames ==
    {"temperature", "apparent_temperature", "relative_humidity",
     "precipitation", "rain", "showers", "snowfall", "cloud_cover",
     "surface_pressure", "pressure_msl", "wind_speed", "wind_dir",
     "wind_gusts"}

\* Optional values are sets of at most one element.
Some(x) == {x}
Get(o) == CHOOSE x \in o : TRUE
\* A GaugeVec child that WithLabelValues has not created yet.
Unset == {}
\* A nil *float64 of CurrentWeatherAlt.
Absent == {}
\* A missing map entry of exporter.cache.
NoEntry == {}

(***************************************************************************)
(* Configuration: types.Config, types.Location.  Coordinates only shape    *)
(* the request URI and are left out.                                       *)
(***************************************************************************)
Location(n, m, t) == [Name |-> n, FetchMethod |-> m, TtlMinutes |-> t]

Names == {"a", "b", "c"}

\* The configurations explored: no target, one target without a method and
\* with the default TTL, three targets of both methods, and a target whose
\* method string is none of the two known ones.
Configs ==
    { << >>,
      << Location("a", NoMethod, 0) >>,
      << Location("a", FetchMethodDefault, 1), Location("b", FetchMethodAlt, 1),
         Location("c", NoMethod, 1) >>,
      << Location("a", "atl", 1), Location("b", FetchMethodAlt, 1) >> }

(***************************************************************************)
(* Response bodies of the remote API.  A body is the byte string read by   *)
(* io.ReadAll: its length, whether it is well-formed JSON, the HTTP status *)
(* it came with, and the members of its "current_weather" and "current"    *)
(* objects (functions from JSON key to number).                            *)
(***************************************************************************)
NoMembers == [k \in {} |-> 0]

BodyD1 ==
    [len |-> 5, wellFormed |-> TRUE, status |-> 200,
     current_weather |-> [k \in {"temperature", "windspeed", "winddirection"} |->
                            CASE k = "temperature" -> -1
                              [] k = "windspeed" -> 59
                              [] OTHER -> 1370],
     current |-> NoMembers]

BodyD2 ==
    [len |-> 6, wellFormed |-> TRUE, status |-> 200,
     current_weather |-> [k \in {"temperature", "windspeed", "winddirection"} |->
                            CASE k = "temperature" -> 21
                              [] k = "windspeed" -> 30
                              [] OTHER -> 900],
     current |-> NoMembers]

AltKeys ==
    {"temperature_2m", "relative_humidity_2m", "apparent_temperature", "is_day",
     "precipitation", "rain", "showers", "snowfall", "weather_code",
     "cloud_cover", "pressure_msl", "surface_pressure", "wind_speed_10m",
     "wind_direction_10m", "wind_gusts_10m"}

\* Every requested member present.
BodyA1 ==
    [len |-> 7, wellFormed |-> TRUE, status |-> 200,
     current_weather |-> NoMembers,
     current |-> [k \in AltKeys |->
                    CASE k = "temperature_2m" -> 105
                      [] k = "rain" -> 12
                      [] k = "snowfall" -> 3
                      [] k = "is_day" -> 1
                      [] OTHER -> 40]]

\* "rain" and "snowfall" omitted, other values changed.
BodyA2 ==
    [len |-> 6, wellFormed |-> TRUE, status |-> 200,
     current_weather |-> NoMembers,
     current |-> [k \in AltKeys \ {"rain", "snowfall"} |->
                    CASE k = "temperature_2m" -> 98
                      [] k = "is_day" -> 0
                      [] OTHER -> 41]]

\* {"error":true,"reason":"..."} sent with a non-success status.
BodyErr ==
    [len |-> 4, wellFormed |-> TRUE, status |-> 400,
     current_weather |-> NoMembers, current |-> NoMembers]

\* Bytes that are not JSON (a truncated or HTML body).
BodyBad ==
    [len |-> 3, wellFormed |-> FALSE, status |-> 200,
     current_weather |-> NoMembers, current |-> NoMembers]

\* What the remote API may answer to a request of each kind.
BodiesFor(method) ==
    IF method = FetchMethodAlt
    THEN {BodyA1, BodyA2, BodyErr, BodyBad}
    ELSE {BodyD1, BodyD2, BodyErr, BodyBad}

(***************************************************************************)
(* Response Decoder: json.Unmarshal into types.Response / ResponseAlt.     *)
(***************************************************************************)
\* A float64 member of a struct: the JSON number, or the zero value when the
\* key is missing.
Float(obj, key) == IF key \in DOMAIN obj THEN obj[key] ELSE 0

\* A *float64 member of a struct: nil when the key is missing.
FloatPtr(obj, key) == IF key \in DOMAIN obj THEN Some(obj[key]) ELSE Absent

\* Mutant: the error of json.Unmarshal is dropped.
UnmarshalErrIgnored(body) == FALSE

\* json.Unmarshal returns an error for bytes that are not JSON.  Unknown
\* members are ignored and missing ones keep their zero value: a well-formed
\* body never fails to decode, whatever its status or members.
UnmarshalErr(body) == ~body.wellFormed

\* types.Response.CurrentWeather (CurrentWeatherDefault).
DecodeDefault(body) ==
    [Temperature   |-> Float(body.current_weather, "temperature"),
     WindSpeed     |-> Float(body.current_weather, "windspeed"),
     WindDirection |-> Float(body.current_weather, "winddirection")]

\* types.ResponseAlt.CurrentWeather (CurrentWeatherAlt).
DecodeAlt(body) ==
    [Temperature         |-> FloatPtr(body.current, "temperature_2m"),
     ApparentTemperature |-> FloatPtr(body.current, "apparent_temperature"),
     RelativeHumidity    |-> FloatPtr(body.current, "relative_humidity_2m"),
     Precipitation       |-> FloatPtr(body.current, "precipitation"),
     Rain                |-> FloatPtr(body.current, "rain"),
     Showers             |-> FloatPtr(body.current, "showers"),
     Snowfall            |-> FloatPtr(body.current, "snowfall"),
     CloudCover          |-> FloatPtr(body.current, "cloud_cover"),
     SurfacePressure     |-> FloatPtr(body.current, "surface_pressure"),
     PressureMsl         |-> FloatPtr(body.current, "pressure_msl"),
     WindSpeed           |-> FloatPtr(body.current, "wind_speed_10m"),
     WindDirection       |-> FloatPtr(body.current, "wind_direction_10m"),
     WindGusts           |-> FloatPtr(body.current, "wind_gusts_10m"),
     WeatherCode         |-> FloatPtr(body.current, "weather_code")]

\* The dynamic type of CacheEntry.Response (an interface{}).
ShapeDefault == "*types.Response"
ShapeAlt == "*types.ResponseAlt"

\* Mutant: handleDefault stores a response other than the one it decoded.
CacheEntryDefaultStale(respObj, t) ==
    [shape |-> ShapeDefault, Response |-> DecodeDefault(BodyD1), LastUpdate |-> t]

\* types.CacheEntry as handleDefault stores it.
CacheEntryDefault(respObj, t) ==
    [shape |-> ShapeDefault, Response |-> respObj, LastUpdate |-> t]

\* Mutant: handleAlt declares its respObj as types.Response.
CacheEntryAltAsDefault(respObj, t) ==
    [shape |-> ShapeDefault, Response |-> respObj, LastUpdate |-> t]

\* types.CacheEntry as handleAlt stores it.
CacheEntryAlt(respObj, t) ==
    [shape |-> ShapeAlt, Response |-> respObj, LastUpdate |-> t]

\* Mutant: the cache keeps one entry, a store evicts the others.
CacheAfterStoreEvicting(c, name, entry) ==
    [n \in DOMAIN c |-> IF n = name THEN Some(entry) ELSE NoEntry]

\* e.cache[loc.Name] = types.CacheEntry{...}
CacheAfterStore(c, name, entry) == [c EXCEPT ![name] = Some(entry)]

(***************************************************************************)
(* TTL and the freshness test.                                             *)
(***************************************************************************)
\* if loc.TtlMinutes == 0 { loc.TtlMinutes = 10 }  (loc is a copy)
EffectiveTtlMinutes(loc) ==
    IF loc.TtlMinutes = 0 THEN DefaultTtlMinutes ELSE loc.TtlMinutes

\* time.Time.Unix(): whole seconds, the fraction dropped.
Unix(t) == t \div TicksPerSecond

\* Mutant: <= in place of <.
CacheFreshInclusive(ttlMinutes, lastUpdate, t) ==
    Unix(t) <= ttlMinutes * SecondsPerMinute + Unix(lastUpdate)

\* time.Now().Unix() < int64(loc.TtlMinutes*60)+last.LastUpdate.Unix()
CacheFresh(ttlMinutes, lastUpdate, t) ==
    Unix(t) < ttlMinutes * SecondsPerMinute + Unix(lastUpdate)

(***************************************************************************)
(* Projection of a decoded response into the gauges.  g is the function    *)
(* [metric name -> [location -> optional value]].                          *)
(***************************************************************************)
\* vec.WithLabelValues(name).Set(v)
SetGauge(g, metric, name, v) == [g EXCEPT ![metric][name] = Some(v)]

\* Mutant: the wind direction is not projected.
ProjectDefaultNoWindDir(g, name, respObj) ==
    SetGauge(SetGauge(g,
        "temperature", name, respObj.Temperature),
        "wind_speed", name, respObj.WindSpeed)

\* handleDefault: the three unconditional Set calls.
ProjectDefault(g, name, respObj) ==
    SetGauge(SetGauge(SetGauge(g,
        "temperature", name, respObj.Temperature),
        "wind_speed", name, respObj.WindSpeed),
        "wind_dir", name, respObj.WindDirection)

\* The gauge each CurrentWeatherAlt member is projected into (WeatherCode
\* has none).
AltGaugeField ==
    [m \in GaugeNames |->
        CASE m = "temperature" -> "Temperature"
          [] m = "apparent_temperature" -> "ApparentTemperature"
          [] m = "relative_humidity" -> "RelativeHumidity"
          [] m = "precipitation" -> "Precipitation"
          [] m = "rain" -> "Rain"
          [] m = "showers" -> "Showers"
          [] m = "snowfall" -> "Snowfall"
          [] m = "cloud_cover" -> "CloudCover"
          [] m = "surface_pressure" -> "SurfacePressure"
          [] m = "pressure_msl" -> "PressureMsl"
          [] m = "wind_speed" -> "WindSpeed"
          [] m = "wind_dir" -> "WindDirection"
          [] OTHER -> "WindGusts"]

\* Mutant: a nil member is projected as 0.
ProjectAltZeroing(g, name, respObj) ==
    [m \in GaugeNames |->
        IF respObj[AltGaugeField[m]] # Absent
        THEN [g[m] EXCEPT ![name] = Some(Get(respObj[AltGaugeField[m]]))]
        ELSE [g[m] EXCEPT ![name] = Some(0)]]

\* handleAlt: one `if field != nil { Set }` per gauge.
ProjectAlt(g, name, respObj) ==
    [m \in GaugeNames |->
        IF respObj[AltGaugeField[m]] # Absent
        THEN [g[m] EXCEPT ![name] = Some(Get(respObj[AltGaugeField[m]]))]
        ELSE g[m]]

(***************************************************************************)
(* The remote API as the collector sees it: what one client.Do and the     *)
(* following io.ReadAll return.                                            *)
(***************************************************************************)
\* err "Do": transport error or client timeout; err "ReadAll": the body could
\* not be read to its end; err "": the body was read.
FetchResults(method) ==
    {[err |-> e, body |-> BodyBad] : e \in {"Do", "ReadAll"}}
        \cup {[err |-> "", body |-> b] : b \in BodiesFor(method)}

\* The request, the body read and the decode all succeeded.
FetchSucceeded(r) == r.err = "" /\ r.body.wellFormed

(***************************************************************************)
(* The sink: the channel one Collect call writes its samples to.  A sample *)
(* is <<metric, location>> (location "" for an instrument without labels); *)
(* the sink counts the samples written for each.                           *)
(***************************************************************************)
ScalarNames ==
    {"total_scrapes", "scrape_errors", "http_fetch_duration", "http_rx_bytes"}

SampleKeys ==
    ((GaugeNames \cup {"cache_hit"}) \X Names) \cup (ScalarNames \X {""})

EmptySink == [k \in SampleKeys |-> 0]

\* GaugeVec.Collect(ch): one sample per child of the vector.
CollectGaugeVec(s, metric, vec) ==
    [k \in SampleKeys |->
        IF k[1] = metric /\ k[2] \in Names /\ vec[k[2]] # Unset
        THEN s[k] + 1 ELSE s[k]]

\* CounterVec.Collect(ch): a child exists once WithLabelValues(name).Inc()
\* has run for it.
CollectCounterVec(s, metric, vec) ==
    [k \in SampleKeys |->
        IF k[1] = metric /\ k[2] \in Names /\ vec[k[2]] > 0
        THEN s[k] + 1 ELSE s[k]]

\* Counter.Collect(ch) / Summary.Collect(ch).
CollectScalar(s, metric) == [s EXCEPT ![<<metric, "">>] = @ + 1]

\* handleDefault lines 89-92.
CollectAfterDefault(s, g, hits) ==
    CollectCounterVec(
        CollectGaugeVec(
            CollectGaugeVec(
                CollectGaugeVec(s, "temperature", g["temperature"]),
                "wind_speed", g["wind_speed"]),
            "wind_dir", g["wind_dir"]),
        "cache_hit", hits)

\* scrape lines 110-122: Collect of each of the thirteen GaugeVecs, one
\* sample per child of each vector.
CollectGauges(s, g, metrics) ==
    [k \in SampleKeys |->
        IF k[1] \in metrics /\ k[2] \in Names /\ g[k[1]][k[2]] # Unset
        THEN s[k] + 1 ELSE s[k]]

\* Gauges with no child at all.
BlankGauges == [m \in GaugeNames |-> [n \in Names |-> Unset]]

\* The gauge children <<metric, name>> a projection has written: those it
\* changed, and those it sets when applied to blank gauges (a Set that
\* repeats the value already there).
Written(before, after, onBlank) ==
    {k \in GaugeNames \X Names :
        after[k[1]][k[2]] # before[k[1]][k[2]] \/ onBlank[k[1]][k[2]] # Unset}

(***************************************************************************)
(* State.                                                                  *)
(***************************************************************************)
\* Goroutines that may run Collect: one per request to the metrics endpoint.
Requests == {"r1", "r2"}
\* The requests of an externally serialized scrape trigger.
Serial == {"r1"}

VARIABLES
    config,             \* exporter.config.Locations
    overlap,            \* whether the host lets Collect calls overlap
    reserve,            \* whether a Collect is started only when the requests
                        \* of its whole cycle are within MaxFetches
    now,                \* the wall clock, in ticks
    ticks,              \* number of clock advances so far
    cache,              \* exporter.cache: [name -> optional CacheEntry]
    gauges,             \* the GaugeVecs: [metric -> [name -> optional value]]
    cacheHit,           \* exporter.cacheHit: [name -> count]
    scrapeErrors,       \* exporter.scrapeErrors
    totalScrapes,       \* exporter.totalScrapes
    httpTraffic,        \* exporter.httpTraffic
    httpFetchDuration,  \* exporter.httpFetchDuration: number of observations
    pc,                 \* where each request's Collect stands
    idx,                \* the loop index of scrape, per request
    sink,               \* the samples written to ch, per request
    collects,           \* number of Collect calls started
    fetches,            \* number of network requests sent
    succeeded,          \* names of the targets that had a successful fetch
    obs,                \* per request and target: what this cycle did for it
    pre,                \* per request: the instruments and cache at Collect entry
    failures,           \* number of fetches that failed, over all cycles
    lastAttempt,        \* per name: how its most recent fetch ended
    latest,             \* per name: the response of its most recent successful fetch
    attempts            \* per name: number of requests sent for it

vars == <<config, overlap, reserve, now, ticks, cache, gauges, cacheHit, scrapeErrors, totalScrapes,
          httpTraffic, httpFetchDuration, pc, idx, sink, collects, fetches,
          succeeded, obs, pre, failures, lastAttempt, latest, attempts>>

Targets == 1 .. Len(config)

\* What a cycle has done for one target so far.
\*   outcome   "none" not reached, "hit", "fetching", "ok", "fail",
\*             "skipped" (no handler ran), "panic"
\*   T1        the instant of the cache check
\*   present   whether the cache held an entry at the check
\*   T0        LastUpdate of that entry
\*   requests  network requests attempted
\*   hitIncs   increments of the target's cache-hit counter
\*   written   gauges written for the target's name
\*   used      the decoded response projected into the gauges
\*   len       length of the body io.ReadAll returned (0: no body was read)
\*   status    HTTP status of the response whose body was read (0: none)
\*   rx        what the fetch added to the received-bytes counter
\*   errInc    increments of the scrape-error counter
ObsNone ==
    [outcome |-> "none", T1 |-> 0, present |-> FALSE, T0 |-> 0,
     requests |-> 0, hitIncs |-> 0, written |-> {}, used |-> {},
     len |-> 0, status |-> 0, rx |-> 0, errInc |-> 0]

Snapshot ==
    [gauges |-> gauges, cache |-> cache, cacheHit |-> cacheHit,
     scrapeErrors |-> scrapeErrors, totalScrapes |-> totalScrapes,
     httpTraffic |-> httpTraffic, httpFetchDuration |-> httpFetchDuration]

\* The exporter as NewExporter returns it.
Constructed ==
    /\ config \in Configs
    /\ now = 0
    /\ ticks = 0
    /\ cache = [n \in Names |-> NoEntry]
    /\ gauges = BlankGauges
    /\ cacheHit = [n \in Names |-> 0]
    /\ scrapeErrors = 0
    /\ totalScrapes = 0
    /\ httpTraffic = 0
    /\ httpFetchDuration = 0
    /\ pc = [p \in Requests |-> "idle"]
    /\ idx = [p \in Requests |-> 0]
    /\ sink = [p \in Requests |-> EmptySink]
    /\ collects = 0
    /\ fetches = 0
    /\ succeeded = {}
    /\ obs = [p \in Requests |-> [i \in 1 .. Len(config) |-> ObsNone]]
    /\ pre = [p \in Requests |->
                [gauges |-> BlankGauges,
                 cache |-> [n \in Names |-> NoEntry],
                 cacheHit |-> [n \in Names |-> 0],
                 scrapeErrors |-> 0, totalScrapes |-> 0,
                 httpTraffic |-> 0, httpFetchDuration |-> 0]]
    /\ failures = 0
    /\ lastAttempt = [n \in Names |-> "none"]
    /\ latest = [n \in Names |-> {}]
    /\ attempts = [n \in Names |-> 0]

\* The scrape trigger is serialized: one Collect at a time.
Init == Constructed /\ overlap = FALSE /\ reserve = FALSE

\* How far the runs are explored: overlapping Collect calls have many more
\* interleavings and are followed less far, and so are the runs on which
\* progress is checked.
CollectBound ==
    IF overlap THEN MaxConcCollects
    ELSE IF reserve THEN MaxLiveCollects ELSE MaxCollects
TickBound ==
    IF overlap THEN MaxConcTicks
    ELSE IF reserve THEN MaxLiveTicks ELSE MaxTicks

(***************************************************************************)
(* The clock.                                                              *)
(***************************************************************************)
\* One tick, and one tick short of the TTL of each configured target: sums
\* of these reach both sides of every TTL boundary.
Deltas ==
    {1} \cup {EffectiveTtlMinutes(config[i]) * SecondsPerMinute * TicksPerSecond - 1 :
                i \in Targets}

Tick ==
    /\ ticks < TickBound
    /\ \E d \in Deltas : now' = now + d
    /\ ticks' = ticks + 1
    /\ UNCHANGED <<config, overlap, reserve, attempts, cache, gauges, cacheHit, scrapeErrors, totalScrapes,
                   httpTraffic, httpFetchDuration, pc, idx, sink, collects,
                   fetches, succeeded, obs, pre, failures, lastAttempt, latest>>

(***************************************************************************)
(* Instrument updates, one per place of the code that makes them.          *)
(***************************************************************************)
\* Mutant: the counter is not incremented.
TotalScrapesNotCounted(n) == n

\* Mutant: the duration is not observed.
DurationNotObserved(n) == n

\* Mutant: the duration is observed twice.
DurationObservedTwice(n) == n + 2

\* Mutant: a cache hit is counted twice.
CacheHitAfterHitTwice(hits, name) == [hits EXCEPT ![name] = @ + 2]

\* Mutant: the loop steps over the next target.
IndexAfterTargetSkip(i) == i + 2

\* Collect: e.totalScrapes.Inc()
TotalScrapesAfterCollect(n) == n + 1

\* Mutant: the error is counted twice.
ScrapeErrorsAfterErrorTwice(n) == n + 2

\* onError: e.scrapeErrors.Inc()
ScrapeErrorsAfterError(n) == n + 1

\* e.cacheHit.WithLabelValues(loc.Name).Inc()
CacheHitAfterHit(hits, name) == [hits EXCEPT ![name] = @ + 1]

\* e.httpTraffic.Add(float64(len(data)))
HttpTrafficAfterRead(n, body) == n + body.len

\* scrape: e.httpFetchDuration.Observe(...)
DurationAfterScrape(n) == n + 1

\* Mutant: the error ends the loop of scrape.
IndexAfterErrorAbort(i, n) == n + 1

\* Mutant: the failed target is tried again.
IndexAfterErrorRetry(i, n) == i

\* `e.onError(err); return` in a handler: scrapeTarget returns and the loop
\* of scrape goes on with the next of the n targets.
IndexAfterError(i, n) == i + 1

\* A handler that ran to its end: the loop goes on with the next target.
IndexAfterTarget(i) == i + 1

(***************************************************************************)
(* Collect and scrape.                                                     *)
(***************************************************************************)
\* Collect line 85 and scrape line 106: a request enters Collect.
CollectBegin(p) ==
    /\ pc[p] \in {"idle", "done"}
    /\ \A q \in Requests : pc[q] # "panic"
    /\ collects < CollectBound
    /\ reserve => fetches + Len(config) <= MaxFetches
    /\ collects' = collects + 1
    /\ totalScrapes' = TotalScrapesAfterCollect(totalScrapes)
    /\ pc' = [pc EXCEPT ![p] = "loop"]
    /\ idx' = [idx EXCEPT ![p] = 1]
    /\ sink' = [sink EXCEPT ![p] = EmptySink]
    /\ obs' = [obs EXCEPT ![p] = [i \in Targets |-> ObsNone]]
    /\ pre' = [pre EXCEPT ![p] = Snapshot]
    /\ UNCHANGED <<config, overlap, reserve, attempts, now, ticks, cache, gauges, cacheHit, scrapeErrors,
                   httpTraffic, httpFetchDuration, fetches, succeeded, failures,
                   lastAttempt, latest>>

\* scrapeTarget: which handler a target goes to.
GoesToDefault(loc) ==
    loc.FetchMethod = NoMethod \/ loc.FetchMethod = FetchMethodDefault

GoesToAlt(loc) ==
    ~GoesToDefault(loc) /\ loc.FetchMethod = FetchMethodAlt

\* The record of the cache check of a handler.
Checked(last, outcome, reqs, hits) ==
    [ObsNone EXCEPT !.outcome = outcome, !.T1 = now,
                    !.present = (last # NoEntry),
                    !.T0 = IF last # NoEntry THEN Get(last).LastUpdate ELSE 0,
                    !.requests = reqs, !.hitIncs = hits]

\* handleDefault lines 31-61 and, on a cache hit, 82-93: the TTL, the cache
\* check, then either the whole hit path or the request sent by client.Do.
HandleDefaultCheck(p) ==
    /\ pc[p] = "loop"
    /\ idx[p] <= Len(config)
    /\ GoesToDefault(config[idx[p]])
    /\ LET i == idx[p]
           loc == config[i]
           ttl == EffectiveTtlMinutes(loc)
           last == cache[loc.Name]
           fetch == ~(last # NoEntry /\ CacheFresh(ttl, Get(last).LastUpdate, now))
       IN  IF fetch
           THEN /\ reserve \/ fetches < MaxFetches
                /\ fetches' = fetches + 1
                /\ attempts' = [attempts EXCEPT ![loc.Name] = @ + 1]
                /\ pc' = [pc EXCEPT ![p] = "fetch"]
                /\ obs' = [obs EXCEPT ![p][i] = Checked(last, "fetching", obs[p][i].requests + 1,
                                                  obs[p][i].hitIncs)]
                /\ UNCHANGED <<cacheHit, gauges, sink, idx>>
           ELSE /\ UNCHANGED <<fetches, attempts>>
                /\ cacheHit' = CacheHitAfterHit(cacheHit, loc.Name)
                /\ IF Get(last).shape # ShapeDefault
                   THEN \* last.Response.(*types.Response) panics
                        /\ pc' = [pc EXCEPT ![p] = "panic"]
                        /\ obs' = [obs EXCEPT ![p][i] = Checked(last, "panic", obs[p][i].requests,
                                                  obs[p][i].hitIncs + 1)]
                        /\ UNCHANGED <<gauges, sink, idx>>
                   ELSE LET respObj == Get(last).Response
                        IN  /\ gauges' = ProjectDefault(gauges, loc.Name, respObj)
                            /\ sink' = [sink EXCEPT ![p] =
                                          CollectAfterDefault(@, gauges', cacheHit')]
                            /\ idx' = [idx EXCEPT ![p] = IndexAfterTarget(i)]
                            /\ obs' = [obs EXCEPT ![p][i] =
                                          [Checked(last, "hit", obs[p][i].requests,
                                                  obs[p][i].hitIncs + 1) EXCEPT
                                              !.written = Written(gauges, gauges',
                                                  ProjectDefault(BlankGauges, loc.Name, respObj)),
                                              !.used = Some(respObj)]]
                            /\ UNCHANGED pc
    /\ UNCHANGED <<config, overlap, reserve, now, ticks, cache, scrapeErrors, totalScrapes,
                   httpTraffic, httpFetchDuration, collects, succeeded, pre,
                   failures, lastAttempt, latest>>

\* handleDefault lines 57-93: client.Do has returned.
HandleDefaultResponse(p, r) ==
    /\ pc[p] = "fetch"
    /\ GoesToDefault(config[idx[p]])
    /\ LET i == idx[p]
           loc == config[i]
           result == IF FetchSucceeded(r) THEN "ok" ELSE "fail"
       IN  IF r.err # ""
           THEN \* client.Do or io.ReadAll failed
                /\ scrapeErrors' = ScrapeErrorsAfterError(scrapeErrors)
                /\ idx' = [idx EXCEPT ![p] = IndexAfterError(i, Len(config))]
                /\ obs' = [obs EXCEPT ![p][i].outcome = result,
                                      ![p][i].errInc = @ + 1]
                /\ UNCHANGED <<httpTraffic, cache, gauges, sink>>
           ELSE /\ httpTraffic' = HttpTrafficAfterRead(httpTraffic, r.body)
                /\ IF UnmarshalErr(r.body)
                   THEN /\ scrapeErrors' = ScrapeErrorsAfterError(scrapeErrors)
                        /\ idx' = [idx EXCEPT ![p] = IndexAfterError(i, Len(config))]
                        /\ obs' = [obs EXCEPT
                                      ![p][i].outcome = result,
                                      ![p][i].len = r.body.len,
                                      ![p][i].status = r.body.status,
                                      ![p][i].rx = httpTraffic' - httpTraffic,
                                      ![p][i].errInc = @ + 1]
                        /\ UNCHANGED <<cache, gauges, sink>>
                   ELSE LET respObj == DecodeDefault(r.body)
                        IN  /\ cache' = CacheAfterStore(cache, loc.Name,
                                            CacheEntryDefault(respObj, now))
                            /\ gauges' = ProjectDefault(gauges, loc.Name, respObj)
                            /\ sink' = [sink EXCEPT ![p] =
                                          CollectAfterDefault(@, gauges', cacheHit)]
                            /\ idx' = [idx EXCEPT ![p] = IndexAfterTarget(i)]
                            /\ obs' = [obs EXCEPT
                                          ![p][i].outcome = result,
                                          ![p][i].written = Written(gauges, gauges',
                                              ProjectDefault(BlankGauges, loc.Name, respObj)),
                                          ![p][i].used = Some(respObj),
                                          ![p][i].len = r.body.len,
                                          ![p][i].status = r.body.status,
                                          ![p][i].rx = httpTraffic' - httpTraffic]
                            /\ UNCHANGED scrapeErrors
    /\ pc' = [pc EXCEPT ![p] = "loop"]
    /\ succeeded' = IF FetchSucceeded(r)
                    THEN succeeded \cup {config[idx[p]].Name} ELSE succeeded
    /\ failures' = IF FetchSucceeded(r) THEN failures ELSE failures + 1
    /\ lastAttempt' = [lastAttempt EXCEPT ![config[idx[p]].Name] =
                          IF FetchSucceeded(r) THEN "ok" ELSE "fail"]
    /\ latest' = IF FetchSucceeded(r)
                 THEN [latest EXCEPT ![config[idx[p]].Name] =
                          Some(DecodeDefault(r.body))]
                 ELSE latest
    /\ UNCHANGED <<config, overlap, reserve, attempts, now, ticks, cacheHit, totalScrapes, httpFetchDuration,
                   collects, fetches, pre>>

\* handleAlt lines 95-127 and, on a cache hit, 148-190.
HandleAltCheck(p) ==
    /\ pc[p] = "loop"
    /\ idx[p] <= Len(config)
    /\ GoesToAlt(config[idx[p]])
    /\ LET i == idx[p]
           loc == config[i]
           ttl == EffectiveTtlMinutes(loc)
           entry == cache[loc.Name]
           fetch == ~(entry # NoEntry /\ CacheFresh(ttl, Get(entry).LastUpdate, now))
       IN  IF fetch
           THEN /\ reserve \/ fetches < MaxFetches
                /\ fetches' = fetches + 1
                /\ attempts' = [attempts EXCEPT ![loc.Name] = @ + 1]
                /\ pc' = [pc EXCEPT ![p] = "fetch"]
                /\ obs' = [obs EXCEPT ![p][i] = Checked(entry, "fetching", obs[p][i].requests + 1,
                                                  obs[p][i].hitIncs)]
                /\ UNCHANGED <<cacheHit, gauges, idx>>
           ELSE /\ UNCHANGED <<fetches, attempts>>
                /\ cacheHit' = CacheHitAfterHit(cacheHit, loc.Name)
                /\ IF Get(entry).shape # ShapeAlt
                   THEN \* entry.Response.(*types.ResponseAlt) panics
                        /\ pc' = [pc EXCEPT ![p] = "panic"]
                        /\ obs' = [obs EXCEPT ![p][i] = Checked(entry, "panic", obs[p][i].requests,
                                                  obs[p][i].hitIncs + 1)]
                        /\ UNCHANGED <<gauges, idx>>
                   ELSE LET respObj == Get(entry).Response
                        IN  /\ gauges' = ProjectAlt(gauges, loc.Name, respObj)
                            /\ idx' = [idx EXCEPT ![p] = IndexAfterTarget(i)]
                            /\ obs' = [obs EXCEPT ![p][i] =
                                          [Checked(entry, "hit", obs[p][i].requests,
                                                  obs[p][i].hitIncs + 1) EXCEPT
                                              !.written = Written(gauges, gauges',
                                                  ProjectAlt(BlankGauges, loc.Name, respObj)),
                                              !.used = Some(respObj)]]
                            /\ UNCHANGED pc
    /\ UNCHANGED <<config, overlap, reserve, now, ticks, cache, scrapeErrors, totalScrapes,
                   httpTraffic, httpFetchDuration, sink, collects, succeeded, pre,
                   failures, lastAttempt, latest>>

\* handleAlt lines 123-190: client.Do has returned.
HandleAltResponse(p, r) ==
    /\ pc[p] = "fetch"
    /\ GoesToAlt(config[idx[p]])
    /\ LET i == idx[p]
           loc == config[i]
           result == IF FetchSucceeded(r) THEN "ok" ELSE "fail"
       IN  IF r.err # ""
           THEN /\ scrapeErrors' = ScrapeErrorsAfterError(scrapeErrors)
                /\ idx' = [idx EXCEPT ![p] = IndexAfterError(i, Len(config))]
                /\ obs' = [obs EXCEPT ![p][i].outcome = result,
                                      ![p][i].errInc = @ + 1]
                /\ UNCHANGED <<httpTraffic, cache, gauges>>
           ELSE /\ httpTraffic' = HttpTrafficAfterRead(httpTraffic, r.body)
                /\ IF UnmarshalErr(r.body)
                   THEN /\ scrapeErrors' = ScrapeErrorsAfterError(scrapeErrors)
                        /\ idx' = [idx EXCEPT ![p] = IndexAfterError(i, Len(config))]
                        /\ obs' = [obs EXCEPT
                                      ![p][i].outcome = result,
                                      ![p][i].len = r.body.len,
                                      ![p][i].status = r.body.status,
                                      ![p][i].rx = httpTraffic' - httpTraffic,
                                      ![p][i].errInc = @ + 1]
                        /\ UNCHANGED <<cache, gauges>>
                   ELSE LET respObj == DecodeAlt(r.body)
                        IN  /\ cache' = CacheAfterStore(cache, loc.Name,
                                            CacheEntryAlt(respObj, now))
                            /\ gauges' = ProjectAlt(gauges, loc.Name, respObj)
                            /\ idx' = [idx EXCEPT ![p] = IndexAfterTarget(i)]
                            /\ obs' = [obs EXCEPT
                                          ![p][i].outcome = result,
                                          ![p][i].written = Written(gauges, gauges',
                                              ProjectAlt(BlankGauges, loc.Name, respObj)),
                                          ![p][i].used = Some(respObj),
                                          ![p][i].len = r.body.len,
                                          ![p][i].status = r.body.status,
                                          ![p][i].rx = httpTraffic' - httpTraffic]
                            /\ UNCHANGED scrapeErrors
    /\ pc' = [pc EXCEPT ![p] = "loop"]
    /\ succeeded' = IF FetchSucceeded(r)
                    THEN succeeded \cup {config[idx[p]].Name} ELSE succeeded
    /\ failures' = IF FetchSucceeded(r) THEN failures ELSE failures + 1
    /\ lastAttempt' = [lastAttempt EXCEPT ![config[idx[p]].Name] =
                          IF FetchSucceeded(r) THEN "ok" ELSE "fail"]
    /\ latest' = IF FetchSucceeded(r)
                 THEN [latest EXCEPT ![config[idx[p]].Name] =
                          Some(DecodeAlt(r.body))]
                 ELSE latest
    /\ UNCHANGED <<config, overlap, reserve, attempts, now, ticks, cacheHit, totalScrapes, httpFetchDuration,
                   sink, collects, fetches, pre>>

\* scrapeTarget lines 97-102 when neither branch is taken: nothing happens.
ScrapeTargetNoHandler(p) ==
    /\ pc[p] = "loop"
    /\ idx[p] <= Len(config)
    /\ ~GoesToDefault(config[idx[p]])
    /\ ~GoesToAlt(config[idx[p]])
    /\ idx' = [idx EXCEPT ![p] = IndexAfterTarget(idx[p])]
    /\ obs' = [obs EXCEPT ![p][idx[p]].outcome = "skipped"]
    /\ UNCHANGED <<config, overlap, reserve, attempts, now, ticks, cache, gauges, cacheHit, scrapeErrors,
                   totalScrapes, httpTraffic, httpFetchDuration, pc, sink,
                   collects, fetches, succeeded, pre, failures, lastAttempt,
                   latest>>

\* scrape lines 110-126 and Collect lines 87-88: the loop is over.
CollectEnd(p) ==
    /\ pc[p] = "loop"
    /\ idx[p] > Len(config)
    /\ httpFetchDuration' = DurationAfterScrape(httpFetchDuration)
    /\ sink' = [sink EXCEPT ![p] =
                  CollectScalar(CollectScalar(CollectScalar(CollectScalar(
                      CollectGauges(@, gauges, GaugeNames),
                      "http_fetch_duration"), "http_rx_bytes"),
                      "total_scrapes"), "scrape_errors")]
    /\ pc' = [pc EXCEPT ![p] = "done"]
    /\ UNCHANGED <<config, overlap, reserve, attempts, now, ticks, cache, gauges, cacheHit, scrapeErrors,
                   totalScrapes, httpTraffic, idx, collects, fetches, succeeded,
                   obs, pre, failures, lastAttempt, latest>>

\* One step of the Collect a request runs.
Step(p) ==
    \/ CollectBegin(p)
    \/ HandleDefaultCheck(p)
    \/ \E r \in FetchResults(FetchMethodDefault) : HandleDefaultResponse(p, r)
    \/ HandleAltCheck(p)
    \/ \E r \in FetchResults(FetchMethodAlt) : HandleAltResponse(p, r)
    \/ ScrapeTargetNoHandler(p)
    \/ CollectEnd(p)

\* Collect calls that do not overlap: the scrape trigger is serialized.
Next ==
    \/ Tick
    \/ \E p \in Serial : Step(p)

Spec == Init /\ [][Next]_vars

(***************************************************************************)
(* Overlapping Collect calls.  promhttp serves every request to the        *)
(* metrics endpoint on its own goroutine and the registry calls Collect on *)
(* each; the exporter holds no lock, so the steps of two cycles interleave *)
(* freely.                                                                 *)
(***************************************************************************)
\* A request is inside a handler, between its entry and its return.
InHandler(p) ==
    \/ pc[p] = "fetch"
    \/ /\ pc[p] = "loop"
       /\ idx[p] <= Len(config)
       /\ GoesToDefault(config[idx[p]]) \/ GoesToAlt(config[idx[p]])

\* handler.go:78 / 144 against handler.go:38 / 102: request p is about to
\* store into exporter.cache while request q reads or stores into the same
\* map, and nothing orders the two accesses.  The Go runtime may detect the
\* unsynchronized map access and end the process with a fatal error; when
\* it does not, the accesses take effect in either order, which the other
\* actions give.
ConcurrentMapAccess(p, q) ==
    /\ p # q
    /\ pc[p] = "fetch"
    /\ InHandler(q)
    /\ pc' = [r \in Requests |-> "panic"]
    /\ UNCHANGED <<config, overlap, reserve, attempts, now, ticks, cache, gauges, cacheHit, scrapeErrors,
                   totalScrapes, httpTraffic, httpFetchDuration, idx, sink,
                   collects, fetches, succeeded, obs, pre, failures,
                   lastAttempt, latest>>

\* The metrics endpoint serves requests concurrently.
InitConc == Constructed /\ overlap = TRUE /\ reserve = FALSE

NextConc ==
    \/ Tick
    \/ \E p \in Requests : Step(p)
    \/ \E p, q \in Requests : ConcurrentMapAccess(p, q)

SpecConc == InitConc /\ [][NextConc]_vars

(***************************************************************************)
(* Progress of a started Collect.  The goroutine that runs Collect is      *)
(* scheduled until it returns, and client.Do returns, with a response or   *)
(* an error, within the client timeout (exporter.go:256-258): a step of a  *)
(* started cycle that stays possible is eventually taken.  A Collect is    *)
(* started only when the requests of its whole cycle are within            *)
(* MaxFetches, so that the exploration bound never stops a cycle midway.   *)
(***************************************************************************)
\* A step of a cycle that has started and not yet returned.
CycleStep(p) == pc[p] \in {"loop", "fetch"} /\ Step(p)

InitLive == Constructed /\ overlap = FALSE /\ reserve = TRUE

SpecLive ==
    InitLive /\ [][Next]_vars /\ \A p \in Serial : WF_vars(CycleStep(p))

(***************************************************************************)
(* Vocabulary of the properties.                                           *)
(***************************************************************************)
\* The TTL the configuration asks for, in ticks: the configured minutes, ten
\* when the configured value is 0.
TtlTicks(loc) ==
    (IF loc.TtlMinutes = 0 THEN 10 ELSE loc.TtlMinutes) * 60 * TicksPerSecond

\* A target as the data model defines it: the selector is absent or one of
\* the two enumerated methods.
IsDefaultTarget(loc) == loc.FetchMethod \in {NoMethod, "default"}
IsAltTarget(loc) == loc.FetchMethod = "alt"
Recognised(loc) == IsDefaultTarget(loc) \/ IsAltTarget(loc)

\* The cycle of request p has checked the cache for target i.
CacheChecked(p, i) == obs[p][i].outcome \in {"hit", "fetching", "ok", "fail", "panic"}

\* The cycle of request p used a response for target i: a cache hit or a
\* successful fetch.
UsedResponse(p, i) == obs[p][i].outcome \in {"hit", "ok"}

\* The gauge children of one location.
GaugesOf(name) == GaugeNames \X {name}

DefaultGauges == {"temperature", "wind_speed", "wind_dir"}

\* The gauges of `name` hold what the decoded response respObj gives them.
GaugesFromDefault(name, respObj) ==
    /\ gauges["temperature"][name] = Some(respObj.Temperature)
    /\ gauges["wind_speed"][name] = Some(respObj.WindSpeed)
    /\ gauges["wind_dir"][name] = Some(respObj.WindDirection)

GaugesFromAlt(name, respObj) ==
    \A m \in GaugeNames :
        respObj[AltGaugeField[m]] # Absent =>
            gauges[m][name] = respObj[AltGaugeField[m]]

(***************************************************************************)
(* C1: a Collect that checks the cache of a target less than its TTL       *)
(* (t*60 seconds, fractions of a second counted) after the entry was       *)
(* stored makes no network request for the target and increments its       *)
(* cache-hit counter by exactly 1.                                         *)
(***************************************************************************)
C1_HitWithinTtl ==
    \A p \in Requests : \A i \in Targets :
        LET o == obs[p][i]
        IN  (CacheChecked(p, i) /\ o.present /\ o.T1 - o.T0 < TtlTicks(config[i]))
                => (o.requests = 0 /\ o.hitIncs = 1)

(***************************************************************************)
(* C2: for a target with no cache entry, or whose entry was stored at T0   *)
(* and is checked at T1 with T1 - T0 >= t*60 seconds, the Collect attempts *)
(* exactly one network request for the target and does not increment its   *)
(* cache-hit counter.                                                      *)
(***************************************************************************)
C2_FetchOnceWhenMissingOrStale ==
    \A p \in Requests : \A i \in Targets :
        LET o == obs[p][i]
        IN  /\ (Recognised(config[i]) /\ pc[p] = "done") => CacheChecked(p, i)
            /\ (CacheChecked(p, i)
                /\ (~o.present \/ o.T1 - o.T0 >= TtlTicks(config[i])))
                   => (o.requests = 1 /\ o.hitIncs = 0
                       /\ cacheHit[config[i].Name] = pre[p].cacheHit[config[i].Name])

\* A finished fetch for an entry checked exactly t*60 seconds after it was
\* stored.
C2_Witness ==
    \E p \in Requests : \E i \in Targets :
        /\ obs[p][i].outcome \in {"ok", "fail"}
        /\ obs[p][i].present
        /\ obs[p][i].T1 - obs[p][i].T0 = TtlTicks(config[i])
        /\ obs[p][i].requests = 1

(***************************************************************************)
(* C3: a fetch failure of one target does not stop the cycle: every other  *)
(* configured target, before and after it, is processed in the same cycle, *)
(* and each of them that had a cache hit or a successful fetch has its     *)
(* gauges set from its own response.                                       *)
(***************************************************************************)
C3_FailureDoesNotStopCycle ==
    \A p \in Requests :
        (pc[p] = "done" /\ \E j \in Targets : obs[p][j].outcome = "fail")
            => \A i \in Targets :
                  /\ obs[p][i].outcome # "none"
                  /\ Recognised(config[i]) => obs[p][i].outcome \in {"hit", "ok", "fail"}
                  /\ (UsedResponse(p, i) /\ IsDefaultTarget(config[i]))
                        => GaugesFromDefault(config[i].Name,
                                             Get(cache[config[i].Name]).Response)
                  /\ (UsedResponse(p, i) /\ IsAltTarget(config[i]))
                        => GaugesFromAlt(config[i].Name,
                                         Get(cache[config[i].Name]).Response)

\* Three targets, the middle one failed, the first and the last fetched.
C3_Witness ==
    \E p \in Requests :
        /\ pc[p] = "done"
        /\ Len(config) = 3
        /\ obs[p][1].outcome = "ok"
        /\ obs[p][2].outcome = "fail"
        /\ obs[p][3].outcome = "ok"
        /\ gauges["temperature"][config[3].Name] # Unset

(***************************************************************************)
(* C4: each Collect increments the total-scrapes counter by exactly 1,     *)
(* whatever the number of targets and the outcomes of the cycle; after n   *)
(* Collects the counter equals n.                                          *)
(***************************************************************************)
C4_TotalScrapesCountsCollects ==
    /\ totalScrapes = collects
    /\ \A p \in Requests :
          pc[p] \in {"loop", "fetch", "done"}
              => totalScrapes = pre[p].totalScrapes + 1

\* The third Collect is over: a failed fetch, a successful one and a cache
\* hit have happened.
C4_Witness ==
    \E p \in Requests :
        /\ pc[p] = "done"
        /\ totalScrapes = 3
        /\ scrapeErrors > 0
        /\ \E i \in Targets : obs[p][i].outcome = "hit"

(***************************************************************************)
(* C5: a cache entry is created or overwritten only at the end of a        *)
(* successful fetch (request, body read and decode all succeeded); a fetch *)
(* that fails at any step leaves the whole cache unchanged.                *)
(***************************************************************************)
C5_CacheWrittenOnlyOnSuccess ==
    [][ /\ \A n \in Names :
              cache'[n] # cache[n]
                  => \E p \in Requests :
                        /\ pc[p] = "fetch"
                        /\ config[idx[p]].Name = n
                        /\ obs'[p][idx[p]].outcome = "ok"
                        /\ cache'[n] # NoEntry
                        /\ Get(cache'[n]).LastUpdate = now
        /\ \A p \in Requests :
              (pc[p] = "fetch" /\ pc'[p] # "fetch" /\ obs'[p][idx[p]].outcome = "fail")
                  => cache' = cache
      ]_vars

\* A failed fetch over a stale entry: the entry is still the one the check
\* saw.
C5_Witness ==
    \E p \in Requests : \E i \in Targets :
        /\ obs[p][i].outcome = "fail"
        /\ obs[p][i].present
        /\ cache[config[i].Name] # NoEntry
        /\ Get(cache[config[i].Name]).LastUpdate = obs[p][i].T0
        /\ cache = pre[p].cache

(***************************************************************************)
(* C6: every cache entry stored under a target's name holds a response of  *)
(* the shape of that target's fetch method, and the shape-specific read of *)
(* a cache hit never meets an entry of the other shape.                    *)
(***************************************************************************)
C6_ShapeMatchesMethod ==
    /\ \A i \in Targets :
          cache[config[i].Name] # NoEntry
              => /\ Recognised(config[i])
                 /\ Get(cache[config[i].Name]).shape =
                       IF IsAltTarget(config[i]) THEN ShapeAlt ELSE ShapeDefault
    /\ \A p \in Requests : pc[p] # "panic"

\* Entries of both shapes are cached, and a cache hit has read each.
C6_Witness ==
    \E p \in Requests : \E i, j \in Targets :
        /\ IsAltTarget(config[i]) /\ obs[p][i].outcome = "hit"
        /\ IsDefaultTarget(config[j]) /\ obs[p][j].outcome = "hit"
        /\ Get(cache[config[i].Name]).shape = ShapeAlt
        /\ Get(cache[config[j].Name]).shape = ShapeDefault

(***************************************************************************)
(* C7: when a target's fetch fails in a cycle, no gauge of that target is  *)
(* written in that cycle: its gauge values are the same as before the      *)
(* cycle; a target that never had a successful fetch has no gauge value.   *)
(***************************************************************************)
C7_FailedFetchWritesNoGauge ==
    /\ \A p \in Requests : \A i \in Targets :
          obs[p][i].outcome = "fail"
              => /\ obs[p][i].written = {}
                 /\ \A m \in GaugeNames :
                       gauges[m][config[i].Name] = pre[p].gauges[m][config[i].Name]
    /\ \A n \in Names \ succeeded :
          \A m \in GaugeNames : gauges[m][n] = Unset

\* A failed fetch of a target whose gauges hold values of an earlier cycle.
C7_Witness ==
    \E p \in Requests : \E i \in Targets :
        /\ obs[p][i].outcome = "fail"
        /\ config[i].Name \in succeeded
        /\ gauges["temperature"][config[i].Name] # Unset
        /\ pc[p] = "done"

(***************************************************************************)
(* C8: of two consecutive Collects, the second inside the TTL of every     *)
(* target's cache entry, the second leaves every gauge value as it was     *)
(* after the first; only the total-scrapes counter, the cache-hit counters *)
(* and the fetch-duration summary differ, the scrape-error and the         *)
(* received-bytes counters do not change.                                  *)
(***************************************************************************)
C8_SecondCollectWithinTtl ==
    \A p \in Requests :
        (/\ pc[p] = "done"
         /\ \A i \in Targets :
               /\ obs[p][i].present
               /\ obs[p][i].T1 - obs[p][i].T0 < TtlTicks(config[i]))
            => /\ gauges = pre[p].gauges
               /\ scrapeErrors = pre[p].scrapeErrors
               /\ httpTraffic = pre[p].httpTraffic
               /\ totalScrapes = pre[p].totalScrapes + 1
               /\ httpFetchDuration = pre[p].httpFetchDuration + 1
               /\ \A i \in Targets :
                     cacheHit[config[i].Name] = pre[p].cacheHit[config[i].Name] + 1

(***************************************************************************)
(* C9: for an alternate-method target, a cycle that used a response (cache *)
(* hit or fresh fetch) sets a gauge of the target if and only if the       *)
(* corresponding field is present in the decoded response; for an absent   *)
(* field the gauge keeps the value of an earlier cycle, or stays without a *)
(* value: it is never reset to zero or removed.                            *)
(***************************************************************************)
C9_AltSetsPresentFieldsOnly ==
    \A p \in Requests : \A i \in Targets :
        (IsAltTarget(config[i]) /\ UsedResponse(p, i))
            => LET name == config[i].Name
                   respObj == Get(cache[name]).Response
               IN  /\ obs[p][i].written \subseteq GaugesOf(name)
                   /\ \A m \in GaugeNames :
                         IF respObj[AltGaugeField[m]] # Absent
                         THEN /\ <<m, name>> \in obs[p][i].written
                              /\ gauges[m][name] = respObj[AltGaugeField[m]]
                         ELSE /\ <<m, name>> \notin obs[p][i].written
                              /\ gauges[m][name] = pre[p].gauges[m][name]

\* A response without rain: the rain gauge keeps the value of an earlier
\* cycle while the temperature follows the response.
C9_Witness ==
    \E p \in Requests : \E i \in Targets :
        /\ IsAltTarget(config[i]) /\ UsedResponse(p, i)
        /\ Get(cache[config[i].Name]).Response["Rain"] = Absent
        /\ gauges["rain"][config[i].Name] = Some(12)
        /\ gauges["temperature"][config[i].Name] = Some(98)

(***************************************************************************)
(* C10: for a default-method target, a cycle that ends in a cache hit or a *)
(* successful fetch sets exactly the temperature, wind speed and wind      *)
(* direction gauges of the target's name, to the values of the response    *)
(* used, and writes no other gauge for that name.                          *)
(***************************************************************************)
C10_DefaultSetsThreeGauges ==
    /\ DecodeDefault(BodyD1) =
          [Temperature |-> -1, WindSpeed |-> 59, WindDirection |-> 1370]
    /\ \A p \in Requests : \A i \in Targets :
          (IsDefaultTarget(config[i]) /\ UsedResponse(p, i))
              => LET name == config[i].Name
                 IN  /\ obs[p][i].written = DefaultGauges \X {name}
                     /\ obs[p][i].used = Some(Get(cache[name]).Response)
                     /\ GaugesFromDefault(name, Get(cache[name]).Response)
                     /\ \A m \in GaugeNames \ DefaultGauges :
                           gauges[m][name] = pre[p].gauges[m][name]

\* The body of the example, fetched and then served from the cache.
C10_Witness ==
    \E p \in Requests : \E i \in Targets :
        /\ IsDefaultTarget(config[i])
        /\ obs[p][i].outcome = "hit"
        /\ gauges["temperature"][config[i].Name] = Some(-1)
        /\ gauges["wind_speed"][config[i].Name] = Some(59)
        /\ gauges["wind_dir"][config[i].Name] = Some(1370)

(***************************************************************************)
(* Vocabulary of the properties about the counters.                        *)
(***************************************************************************)
RECURSIVE SumLen(_, _)
\* The sum of the body lengths read for the targets `is` in the cycle of p.
SumLen(p, is) ==
    IF is = {} THEN 0
    ELSE LET i == CHOOSE x \in is : TRUE
         IN  obs[p][i].len + SumLen(p, is \ {i})

\* The targets whose fetch succeeded, and failed, in the cycle of request p.
FetchedOk(p) == {i \in Targets : obs[p][i].outcome = "ok"}
FetchFailed(p) == {i \in Targets : obs[p][i].outcome = "fail"}

\* A response was received with a status outside 2xx.
NonSuccessStatus(o) == o.status # 0 /\ o.status \notin 200 .. 299

(***************************************************************************)
(* C11: a successful fetch increases the received-bytes counter by exactly *)
(* the length of the body read for it, a cache hit adds nothing, and over  *)
(* a cycle the counter increases by the sum of the body lengths of the     *)
(* cycle's successful fetches.                                             *)
(***************************************************************************)
C11_RxBytesOfSuccessfulFetches ==
    /\ \A p \in Requests : \A i \in Targets :
          /\ obs[p][i].outcome = "ok"
                => (obs[p][i].len > 0 /\ obs[p][i].rx = obs[p][i].len)
          /\ obs[p][i].outcome = "hit" => obs[p][i].rx = 0
    /\ \A p \in Requests :
          pc[p] = "done"
              => httpTraffic - pre[p].httpTraffic = SumLen(p, FetchedOk(p))

(***************************************************************************)
(* C12: a target configured with TTL 0 has an effective TTL of 10 minutes: *)
(* every check of its entry less than 600 seconds after the entry was      *)
(* stored is a cache hit, every check at 600 seconds or later is a fetch.  *)
(* (No action assigns config: the handlers resolve the TTL on their own    *)
(* copy of the Location.)                                                  *)
(***************************************************************************)
C12_DefaultTtlTenMinutes ==
    \A p \in Requests : \A i \in Targets :
        LET o == obs[p][i]
        IN  (config[i].TtlMinutes = 0 /\ CacheChecked(p, i) /\ o.present)
                => /\ o.T1 - o.T0 < 600 * TicksPerSecond
                         => (o.requests = 0 /\ o.hitIncs = 1)
                   /\ o.T1 - o.T0 >= 600 * TicksPerSecond
                         => (o.requests = 1 /\ o.hitIncs = 0)

(***************************************************************************)
(* C13: when Collect calls overlap, the accesses to the cache and the      *)
(* instrument writes of two cycles are mutually exclusive: no two requests *)
(* are inside a handler (cache read, check, fetch, cache write, gauge      *)
(* writes) at the same time, and no unsynchronized map access ends the     *)
(* process.                                                                *)
(***************************************************************************)
C13_CacheAccessExclusive ==
    /\ \A p, q \in Requests :
          p # q => ~(InHandler(p) /\ InHandler(q))
    /\ \A p \in Requests : pc[p] # "panic"

(***************************************************************************)
(* C14: within one Collect, nothing is written to the sink and the cycle   *)
(* duration is not recorded while a target of the cycle is still           *)
(* unprocessed.                                                            *)
(***************************************************************************)
C14_SinkWrittenAfterLoop ==
    \A p \in Requests :
        (/\ pc[p] \in {"loop", "fetch"}
         /\ \E i \in Targets : obs[p][i].outcome \in {"none", "fetching"})
            => /\ sink[p] = EmptySink
               /\ httpFetchDuration = pre[p].httpFetchDuration

(***************************************************************************)
(* C15: a finished Collect has written to its sink the total-scrapes,      *)
(* scrape-errors and received-bytes counters, the fetch-duration summary,  *)
(* and the cache-hit counter of every target that has had a cache hit,     *)
(* whatever the fetch method of the target.                                *)
(***************************************************************************)
C15_CountersReachSink ==
    \A p \in Requests :
        pc[p] = "done"
            => /\ \A m \in ScalarNames : sink[p][<<m, "">>] >= 1
               /\ \A i \in Targets :
                     cacheHit[config[i].Name] > 0
                         => sink[p][<<"cache_hit", config[i].Name>>] >= 1

(***************************************************************************)
(* C16: a fetch that ends on the error path, at any step, leaves the       *)
(* received-bytes counter as it was, also when its body was read to the    *)
(* end and then failed to decode.                                          *)
(***************************************************************************)
C16_FailedFetchAddsNoBytes ==
    \A p \in Requests : \A i \in Targets :
        obs[p][i].outcome = "fail" => obs[p][i].rx = 0

(***************************************************************************)
(* C17: a fetch answered with a non-success HTTP status is a fetch failure *)
(* of the target: the scrape-error counter is incremented once, the cache  *)
(* entry of the target is left as it was and no gauge of the target is     *)
(* written in the cycle, also when the body is well-formed JSON.           *)
(***************************************************************************)
C17_NonSuccessStatusIsFailure ==
    \A p \in Requests : \A i \in Targets :
        NonSuccessStatus(obs[p][i])
            => /\ obs[p][i].errInc = 1
               /\ obs[p][i].written = {}
               /\ cache[config[i].Name] = pre[p].cache[config[i].Name]

(***************************************************************************)
(* C18: every fetch that fails (request, read or decode error) increments  *)
(* the scrape-error counter exactly once, and nothing else increments it:  *)
(* the counter equals the number of failed fetches over all cycles, a      *)
(* cycle adds the number of its targets whose fetch failed, and a cache    *)
(* hit or a successful fetch adds nothing.                                 *)
(***************************************************************************)
C18_ScrapeErrorsCountFailures ==
    /\ scrapeErrors = failures
    /\ \A p \in Requests : \A i \in Targets :
          /\ obs[p][i].outcome = "fail" => obs[p][i].errInc = 1
          /\ obs[p][i].outcome \in {"hit", "ok"} => obs[p][i].errInc = 0
    /\ \A p \in Requests :
          pc[p] = "done"
              => scrapeErrors - pre[p].scrapeErrors = Cardinality(FetchFailed(p))

\* A cycle of three targets: two fetches failed, one succeeded.
C18_Witness ==
    \E p \in Requests :
        /\ pc[p] = "done"
        /\ Cardinality(FetchFailed(p)) = 2
        /\ Cardinality(FetchedOk(p)) = 1
        /\ scrapeErrors = 2

(***************************************************************************)
(* C19: no retry and no negative caching.  A cycle attempts at most one    *)
(* request for a target; a failed fetch leaves the cache entry of the      *)
(* target as it was, so a cache hit never follows a failed fetch without a *)
(* successful fetch between them; a target that never had a successful     *)
(* fetch has no entry and every cycle attempts exactly one request for it. *)
(***************************************************************************)
C19_NoRetryNoNegativeCaching ==
    \A p \in Requests : \A i \in Targets :
        LET o == obs[p][i]
            name == config[i].Name
        IN  /\ o.requests <= 1
            /\ o.outcome = "fail"
                  => (o.requests = 1 /\ cache[name] = pre[p].cache[name])
            /\ o.outcome = "hit" => lastAttempt[name] = "ok"
            /\ (CacheChecked(p, i) /\ name \notin succeeded)
                  => (o.requests = 1 /\ o.hitIncs = 0 /\ cache[name] = NoEntry)
            /\ (pc[p] = "done" /\ Recognised(config[i])) => CacheChecked(p, i)

\* The third cycle of a target whose fetches all failed: three requests in
\* three cycles.
C19_Witness ==
    \E p \in Requests : \E i \in Targets :
        /\ pc[p] = "done"
        /\ collects = 3
        /\ fetches = 3
        /\ scrapeErrors = 3
        /\ Len(config) = 1
        /\ obs[p][i].outcome = "fail"
        /\ config[i].Name \notin succeeded

(***************************************************************************)
(* C20: the response a cycle projects into the gauges of a target is the   *)
(* one of the most recent successful fetch of the target: on a cache hit   *)
(* the cached one, on a successful fetch the one just fetched, which       *)
(* replaces the cached one.  No older response is projected.               *)
(***************************************************************************)
C20_LatestResponseProjected ==
    /\ \A n \in Names :
          IF cache[n] = NoEntry
          THEN latest[n] = {}
          ELSE latest[n] = Some(Get(cache[n]).Response)
    /\ \A p \in Requests : \A i \in Targets :
          UsedResponse(p, i)
              => /\ obs[p][i].used = latest[config[i].Name]
                 /\ IsDefaultTarget(config[i])
                       => GaugesFromDefault(config[i].Name,
                                            Get(latest[config[i].Name]))
                 /\ IsAltTarget(config[i])
                       => GaugesFromAlt(config[i].Name,
                                        Get(latest[config[i].Name]))

\* A cache hit after two successful fetches of the target: the hit projects
\* the second response, not the first.
C20_Witness ==
    \E p \in Requests : \E i \in Targets :
        /\ IsDefaultTarget(config[i])
        /\ obs[p][i].outcome = "hit"
        /\ httpTraffic = BodyD1.len + BodyD2.len
        /\ obs[p][i].used = Some(DecodeDefault(BodyD2))
        /\ gauges["temperature"][config[i].Name] = Some(21)

(***************************************************************************)
(* Vocabulary of the properties about the cache and the loop.              *)
(***************************************************************************)
\* The names that have a cache entry.
CacheKeys(c) == {n \in Names : c[n] # NoEntry}

ConfiguredNames == {config[i].Name : i \in Targets}

\* The cycle of request p is over for target i.
Processed(p, i) == obs[p][i].outcome \in {"hit", "ok", "fail", "skipped"}

\* The cycle of request p has returned: the duration is recorded and the
\* counters of Collect are in the sink.
Finished(p) ==
    /\ pc[p] = "done"
    /\ httpFetchDuration = pre[p].httpFetchDuration + 1
    /\ sink[p][<<"http_fetch_duration", "">>] = 1
    /\ sink[p][<<"total_scrapes", "">>] = 1
    /\ sink[p][<<"scrape_errors", "">>] = 1

(***************************************************************************)
(* C21: cache entries are never removed: a name that has had a successful  *)
(* fetch has an entry in every later state, an entry present at the start  *)
(* of a cycle is present during and after it; the cache keys are a subset  *)
(* of the configured target names, so the cache never holds more entries   *)
(* than there are configured targets.                                      *)
(***************************************************************************)
C21_CacheGrowsOnlyWithinConfig ==
    /\ CacheKeys(cache) = succeeded
    /\ \A p \in Requests : CacheKeys(pre[p].cache) \subseteq CacheKeys(cache)
    /\ CacheKeys(cache) \subseteq ConfiguredNames
    /\ Cardinality(CacheKeys(cache)) <= Len(config)

\* Every one of three targets has an entry, kept into a later cycle that
\* served the first target from the cache.
C21_Witness ==
    \E p \in Requests :
        /\ Len(config) = 3
        /\ CacheKeys(cache) = ConfiguredNames
        /\ CacheKeys(pre[p].cache) = ConfiguredNames
        /\ obs[p][1].outcome = "hit"

(***************************************************************************)
(* C22: a cycle processes the configured targets one at a time, in the     *)
(* configured order, each exactly once: the targets before the loop index  *)
(* are processed (a recognised one by exactly one cache hit or one         *)
(* request), the target at the index is the only one that may be waiting   *)
(* for its fetch, and no later target has been touched.                    *)
(***************************************************************************)
C22_TargetsInOrderOnce ==
    \A p \in Requests :
        pc[p] \in {"loop", "fetch", "done"}
            => /\ idx[p] \in 1 .. Len(config) + 1
               /\ pc[p] = "done" => idx[p] = Len(config) + 1
               /\ pc[p] = "fetch" => idx[p] <= Len(config)
               /\ \A i \in Targets :
                     /\ i < idx[p]
                           => /\ Processed(p, i)
                              /\ Recognised(config[i])
                                    => obs[p][i].requests + obs[p][i].hitIncs = 1
                     /\ i = idx[p]
                           => IF pc[p] = "fetch"
                              THEN /\ obs[p][i].outcome = "fetching"
                                   /\ obs[p][i].requests = 1
                                   /\ obs[p][i].hitIncs = 0
                              ELSE obs[p][i] = ObsNone
                     /\ i > idx[p] => obs[p][i] = ObsNone
                     /\ \A j \in Targets :
                           (j < i /\ CacheChecked(p, i) /\ CacheChecked(p, j))
                               => obs[p][j].T1 <= obs[p][i].T1

\* The second of three targets waits for its fetch: the first is processed,
\* the third untouched.
C22_Witness ==
    \E p \in Requests :
        /\ Len(config) = 3
        /\ pc[p] = "fetch"
        /\ idx[p] = 2
        /\ obs[p][1].outcome = "ok"
        /\ obs[p][3] = ObsNone

(***************************************************************************)
(* C23: every started Collect returns, whatever the outcomes of its        *)
(* fetches: it reaches the point where the cycle duration is recorded and  *)
(* the total-scrapes and scrape-errors counters are written to the sink.   *)
(***************************************************************************)
C23_CollectTerminates ==
    \A p \in Serial : (pc[p] \in {"loop", "fetch"}) ~> Finished(p)

\* A cycle of three targets whose fetches all failed has returned.
C23_Witness ==
    \E p \in Serial :
        /\ Finished(p)
        /\ Len(config) = 3
        /\ \A i \in Targets : obs[p][i].outcome = "fail"
        /\ scrapeErrors = 3

(***************************************************************************)
(* C24: every configured target is handled by one of the two methods in    *)
(* every cycle, whatever its method selector holds: a finished cycle has   *)
(* given each target either one cache hit or one fetch attempt; a target   *)
(* without a selector goes the way of a `default` target.                  *)
(***************************************************************************)
C24_EveryTargetHandled ==
    /\ GoesToDefault(Location("a", NoMethod, 0))
    /\ GoesToDefault(Location("a", "default", 0))
    /\ \A p \in Requests :
          pc[p] = "done"
              => \A i \in Targets :
                    /\ obs[p][i].outcome \in {"hit", "ok", "fail"}
                    /\ obs[p][i].requests + obs[p][i].hitIncs = 1

(***************************************************************************)
(* C25: within one Collect each metric sample (an instrument with one      *)
(* label value) is written to the sink at most once.                       *)
(***************************************************************************)
C25_SampleWrittenAtMostOnce ==
    \A p \in Requests : \A k \in SampleKeys : sink[p][k] <= 1

(***************************************************************************)
(* C26: after every completed Collect the number of observations of the    *)
(* fetch-duration summary equals the total-scrapes counter: one duration   *)
(* is observed per cycle, at its end.                                      *)
(***************************************************************************)
C26_OneDurationPerCycle ==
    /\ (\A p \in Requests : pc[p] \in {"idle", "done"})
          => httpFetchDuration = totalScrapes
    /\ \A p \in Requests :
          /\ pc[p] = "done" => httpFetchDuration = pre[p].httpFetchDuration + 1
          /\ pc[p] \in {"loop", "fetch"}
                => httpFetchDuration = pre[p].httpFetchDuration

\* The second cycle of an exporter without targets is over.
C26_Witness ==
    \E p \in Requests :
        /\ pc[p] = "done"
        /\ Len(config) = 0
        /\ totalScrapes = 2
        /\ httpFetchDuration = 2

(***************************************************************************)
(* C27: for a target with a recognised fetch method, over Collect calls    *)
(* that do not overlap, its cache-hit counter plus the number of requests  *)
(* sent for it equals the number of cycles that processed it; the cache-   *)
(* hit counter changes only in a cycle that sends no request for the       *)
(* target, and is never incremented for a target without a cache entry.    *)
(***************************************************************************)
C27_HitsPlusAttemptsAreCycles ==
    \A p \in Serial : \A i \in Targets :
        LET name == config[i].Name
            o == obs[p][i]
        IN  Recognised(config[i])
                => /\ cacheHit[name] + attempts[name] =
                         IF pc[p] \in {"idle", "done"} \/ CacheChecked(p, i)
                         THEN collects ELSE collects - 1
                   /\ pc[p] # "idle"
                         => /\ cacheHit[name] = pre[p].cacheHit[name] + o.hitIncs
                            /\ o.hitIncs = 1 => (o.requests = 0 /\ o.present)
                            /\ o.requests = 1 => o.hitIncs = 0
                   /\ cacheHit[name] > 0 => cache[name] # NoEntry

\* Three cycles of one target: two requests (the first failed) and one
\* cache hit.
C27_Witness ==
    \E p \in Serial : \E i \in Targets :
        /\ pc[p] = "done"
        /\ collects = 3
        /\ Recognised(config[i])
        /\ attempts[config[i].Name] = 2
        /\ cacheHit[config[i].Name] = 1
        /\ scrapeErrors = 1

====
